---- MODULE Spec2Model ----
(***************************************************************************)
(* PromServerInterceptor of py_grpc_prometheus: the wrapping of a gRPC     *)
(* server handler with Prometheus counting and timing.                     *)
(*                                                                         *)
(* One interceptor instance (legacy, histogram) serves every call.         *)
(* A call is intercepted (intercept_service), its wrapped behaviour is     *)
(* invoked by the transport (new_behavior), the original behaviour runs    *)
(* (pulling request elements, setting a status, returning or raising), and *)
(* a response stream is consumed element by element through the counting   *)
(* generators.                                                             *)
(***************************************************************************)
EXTENDS Bags, FiniteSets, Integers, Sequences, TLC

VARIABLES
  legacy,     \* self._legacy
  histogram,  \* self._enable_handling_time_histogram
  call,       \* per call: position, closure variables, context, streams, log
  registry    \* the process-wide metrics: a bag of samples

vars == <<legacy, histogram, call, registry>>

(* ------------------------------ bounds -------------------------------- *)

\* Longest request stream and longest response stream of a call.
MaxMsgs == 2
\* Longest stream of a call that runs next to another call.
MaxConcMsgs == 1
\* Largest reading of the clock.
MaxTime == 1

Msgs == {"m1", "m2"}
Times == 0..MaxTime
Paths == { <<"/", "S", "/", "a">>, <<"/", "T", "/", "b">> }

NoCode == "-"
NoMsg == "-"

(* --------------------------- grpc.StatusCode -------------------------- *)

StatusCode ==
  [ OK        |-> [name |-> "OK",        value |-> 0],
    CANCELLED |-> [name |-> "CANCELLED", value |-> 1],
    UNKNOWN   |-> [name |-> "UNKNOWN",   value |-> 2],
    NOT_FOUND |-> [name |-> "NOT_FOUND", value |-> 5] ]

StatusCodes == { StatusCode[k] : k \in DOMAIN StatusCode }

\* servicer_context._state.code before any set_code
CodeUnset == [name |-> "None", value |-> -1]

(* ------------------------------ errors -------------------------------- *)

\* What a behaviour or a stream can raise.  class "RpcCall" is an RpcError
\* that is also a grpc.Call (it has code()), "RpcError" a bare grpc.RpcError,
\* "Fault" any other exception.  id stands for the object's identity.
Errors ==
  { [class |-> "RpcCall", code |-> sc, id |-> "e"] : sc \in StatusCodes }
  \cup { [class |-> "RpcError", code |-> CodeUnset, id |-> "e"],
         [class |-> "Fault",    code |-> CodeUnset, id |-> "e"] }

NoError == [class |-> "none", code |-> CodeUnset, id |-> "-"]

IsRpcError(e) == e.class \in {"RpcCall", "RpcError"}
IsCall(e) == e.class = "RpcCall"

(* ------------------------------ metrics ------------------------------- *)

DefaultMetrics ==
  { "GRPC_SERVER_STARTED_COUNTER", "GRPC_SERVER_STREAM_MSG_RECEIVED",
    "GRPC_SERVER_STREAM_MSG_SENT", "GRPC_SERVER_HANDLED_COUNTER",
    "GRPC_SERVER_HANDLED_HISTOGRAM" }

LegacyMetrics ==
  { "LEGACY_GRPC_SERVER_STARTED_TOTAL_COUNTER",
    "LEGACY_GRPC_SERVER_MSG_RECEIVED_TOTAL_COUNTER",
    "LEGACY_GRPC_SERVER_MSG_SENT_TOTAL_COUNTER",
    "LEGACY_GRPC_SERVER_HANDLED_TOTAL_COUNTER",
    "LEGACY_GRPC_SERVER_HANDLED_LATENCY_SECONDS" }

StartedMetrics ==
  { "GRPC_SERVER_STARTED_COUNTER", "LEGACY_GRPC_SERVER_STARTED_TOTAL_COUNTER" }
ReceivedMetrics ==
  { "GRPC_SERVER_STREAM_MSG_RECEIVED",
    "LEGACY_GRPC_SERVER_MSG_RECEIVED_TOTAL_COUNTER" }
SentMetrics ==
  { "GRPC_SERVER_STREAM_MSG_SENT", "LEGACY_GRPC_SERVER_MSG_SENT_TOTAL_COUNTER" }
HandledMetrics ==
  { "GRPC_SERVER_HANDLED_COUNTER", "LEGACY_GRPC_SERVER_HANDLED_TOTAL_COUNTER" }
LatencyMetrics ==
  { "GRPC_SERVER_HANDLED_HISTOGRAM",
    "LEGACY_GRPC_SERVER_HANDLED_LATENCY_SECONDS" }

\* metric.labels(grpc_type=, grpc_service=, grpc_method=[, code=]).inc() is a
\* sample of value 1; .observe(v) a sample of value v.
Sample(metric, gt, svc, mth, code, v) ==
  [ metric |-> metric, grpc_type |-> gt, grpc_service |-> svc,
    grpc_method |-> mth, code |-> code, value |-> v ]

Inc(metric, gt, svc, mth) == Sample(metric, gt, svc, mth, NoCode, 1)

RECURSIVE Record(_, _)
\* The registry after the samples of evs, in order.
Record(reg, evs) ==
  IF evs = <<>> THEN reg
  ELSE Record(reg (+) SetToBag({Head(evs)}), Tail(evs))

(* ---------------------------- grpc_utils ------------------------------ *)

\* grpc_utils.get_method_type: the call-type tag of a shape.
get_method_type(request_streaming, response_streaming) ==
  IF request_streaming
    THEN (IF response_streaming THEN "BIDI_STREAM" ELSE "CLIENT_STREAM")
    ELSE (IF response_streaming THEN "SERVER_STREAM" ELSE "UNARY")

RECURSIVE SplitOn(_, _, _)
\* str.split: the segments of s between separators, cur being the segment
\* under construction.
SplitOn(s, sep, cur) ==
  IF s = <<>> THEN <<cur>>
  ELSE IF Head(s) = sep THEN <<cur>> \o SplitOn(Tail(s), sep, <<>>)
  ELSE SplitOn(Tail(s), sep, Append(cur, Head(s)))

\* grpc_utils.split_method_call: "/service/method" to its two names.
split_method_call(method) ==
  LET parts == SplitOn(method, "/", <<>>)
  IN IF Len(parts) < 3
       THEN [service |-> <<>>, method |-> <<>>, ok |-> FALSE]
       ELSE [service |-> parts[2], method |-> parts[3], ok |-> TRUE]

\* One pull through one grpc_utils.wrap_iterator_inc_counter generator:
\* an element of the source is counted, then yielded; the end of the source
\* and an error raised by it pass through uncounted.
wrap_iterator_inc_counter(pulled, counter, gt, svc, mth) ==
  [ samples |-> IF pulled.kind = "item"
                  THEN <<Inc(counter, gt, svc, mth)>> ELSE <<>>,
    out |-> pulled ]

(* ------------------------- rpc method handlers ------------------------ *)

\* grpc.*_rpc_method_handler: a handler of one shape; only the entry point
\* of that shape is set.  An absent value (None) is the empty sequence.
RpcMethodHandler(rs, ps, behavior, deser, ser) ==
  [ request_streaming |-> rs, response_streaming |-> ps,
    request_deserializer |-> deser, response_serializer |-> ser,
    unary_unary   |-> IF ~rs /\ ~ps THEN <<behavior>> ELSE <<>>,
    unary_stream  |-> IF ~rs /\ ps  THEN <<behavior>> ELSE <<>>,
    stream_unary  |-> IF rs /\ ~ps  THEN <<behavior>> ELSE <<>>,
    stream_stream |-> IF rs /\ ps   THEN <<behavior>> ELSE <<>> ]

\* The servicer's behaviour of a (service, shape).
Servicer(rs, ps) == <<"servicer", get_method_type(rs, ps)>>

\* What the continuation can yield: no handler, or a handler of a shape.
Handlers ==
  { <<>> } \cup
  { <<RpcMethodHandler(rs, ps, Servicer(rs, ps), "deser", "ser")>> :
      rs \in BOOLEAN, ps \in BOOLEAN }

\* The entry point the transport calls: the one of the handler's shape.
EntryPoint(h) ==
  IF h.request_streaming
    THEN (IF h.response_streaming THEN h.stream_stream ELSE h.stream_unary)
    ELSE (IF h.response_streaming THEN h.unary_stream ELSE h.unary_unary)

(* ----------------------- PromServerInterceptor ------------------------ *)

\* metrics_wrapper: new_behavior as a closure over the behaviour, the two
\* shape flags and the names split from the call details.
metrics_wrapper(behavior, request_streaming, response_streaming, names) ==
  [ behavior |-> behavior,
    request_streaming |-> request_streaming,
    response_streaming |-> response_streaming,
    grpc_service_name |-> names.service,
    grpc_method_name |-> names.method ]

\* _wrap_rpc_behavior gone wrong: no handler is answered with a unary_unary
\* handler around fn of nothing, instead of None.
wrap_rpc_behavior_NoneWrapped(handler, names) ==
  IF handler = <<>>
    THEN << RpcMethodHandler(FALSE, FALSE,
                             metrics_wrapper(<<>>, FALSE, FALSE, names),
                             "deser", "ser") >>
  ELSE LET h == handler[1]
           rs == h.request_streaming
           ps == h.response_streaming
           behavior_fn ==
             IF rs /\ ps THEN h.stream_stream
             ELSE IF rs /\ ~ps THEN h.stream_unary
             ELSE IF ~rs /\ ps THEN h.unary_stream
             ELSE h.unary_unary
           shape ==
             IF rs /\ ps THEN <<TRUE, TRUE>>
             ELSE IF rs /\ ~ps THEN <<TRUE, FALSE>>
             ELSE IF ~rs /\ ps THEN <<FALSE, TRUE>>
             ELSE <<FALSE, FALSE>>
       IN << RpcMethodHandler(shape[1], shape[2],
                              metrics_wrapper(behavior_fn[1], rs, ps, names),
                              h.request_deserializer, h.response_serializer) >>

\* _wrap_rpc_behavior gone wrong: the stream_unary branch builds its handler
\* with the unary_unary factory.
wrap_rpc_behavior_WrongFactory(handler, names) ==
  IF handler = <<>> THEN <<>>
  ELSE LET h == handler[1]
           rs == h.request_streaming
           ps == h.response_streaming
           behavior_fn ==
             IF rs /\ ps THEN h.stream_stream
             ELSE IF rs /\ ~ps THEN h.stream_unary
             ELSE IF ~rs /\ ps THEN h.unary_stream
             ELSE h.unary_unary
           shape ==
             IF rs /\ ps THEN <<TRUE, TRUE>>
             ELSE IF ~rs /\ ps THEN <<FALSE, TRUE>>
             ELSE <<FALSE, FALSE>>
       IN << RpcMethodHandler(shape[1], shape[2],
                              metrics_wrapper(behavior_fn[1], rs, ps, names),
                              h.request_deserializer, h.response_serializer) >>

\* _wrap_rpc_behavior: None for no handler, else the handler of the same
\* shape around fn(behavior_fn, request_streaming, response_streaming).
wrap_rpc_behavior(handler, names) ==
  IF handler = <<>> THEN <<>>
  ELSE LET h == handler[1]
           rs == h.request_streaming
           ps == h.response_streaming
           behavior_fn ==
             IF rs /\ ps THEN h.stream_stream
             ELSE IF rs /\ ~ps THEN h.stream_unary
             ELSE IF ~rs /\ ps THEN h.unary_stream
             ELSE h.unary_unary
           shape ==
             IF rs /\ ps THEN <<TRUE, TRUE>>
             ELSE IF rs /\ ~ps THEN <<TRUE, FALSE>>
             ELSE IF ~rs /\ ps THEN <<FALSE, TRUE>>
             ELSE <<FALSE, FALSE>>
       IN << RpcMethodHandler(shape[1], shape[2],
                              metrics_wrapper(behavior_fn[1], rs, ps, names),
                              h.request_deserializer, h.response_serializer) >>

\* _compute_status_code gone wrong: a status that was set wins over the
\* client's cancellation.
compute_status_code_CodeFirst(ctx) ==
  IF ctx.code # CodeUnset THEN ctx.code
  ELSE IF ctx.client = "cancelled" THEN StatusCode.CANCELLED
  ELSE StatusCode.OK

\* _compute_status_code
compute_status_code(ctx) ==
  IF ctx.client = "cancelled" THEN StatusCode.CANCELLED
  ELSE IF ctx.code = CodeUnset THEN StatusCode.OK
  ELSE ctx.code

\* _compute_error_code gone wrong: code() is read from every error, with no
\* fallback for an error that is not a grpc.Call.
compute_error_code_NoFallback(e) == e.code.name

\* _compute_error_code
compute_error_code(e) ==
  IF IsCall(e) THEN e.code.name ELSE StatusCode.UNKNOWN.name

\* The request generators gone wrong: the sent generator is added in legacy
\* mode too.
RequestWrappers_SentAlways(leg, request_streaming) ==
  IF request_streaming
    THEN <<"GRPC_SERVER_STREAM_MSG_RECEIVED", "GRPC_SERVER_STREAM_MSG_SENT">>
    ELSE <<>>

\* new_behavior, request side: the counting generators around the request
\* iterator, innermost first.
RequestWrappers(leg, request_streaming) ==
  IF request_streaming
    THEN <<"GRPC_SERVER_STREAM_MSG_RECEIVED">>
         \o (IF ~leg THEN <<"GRPC_SERVER_STREAM_MSG_SENT">> ELSE <<>>)
    ELSE <<>>

\* The started increment gone wrong: made for the request streams too.
StartedSamples_AnyShape(leg, request_streaming, gt, svc, mth) ==
  IF leg
    THEN <<Inc("LEGACY_GRPC_SERVER_STARTED_TOTAL_COUNTER", gt, svc, mth)>>
    ELSE <<Inc("GRPC_SERVER_STARTED_COUNTER", gt, svc, mth)>>

\* new_behavior, request side: the started increment of a call whose request
\* is not a stream.
StartedSamples(leg, request_streaming, gt, svc, mth) ==
  IF request_streaming THEN <<>>
  ELSE IF leg
    THEN <<Inc("LEGACY_GRPC_SERVER_STARTED_TOTAL_COUNTER", gt, svc, mth)>>
    ELSE <<Inc("GRPC_SERVER_STARTED_COUNTER", gt, svc, mth)>>

\* The response generators gone wrong: the sent generator is added only in
\* legacy mode.
ResponseWrappers_SentLegacyOnly(leg, response_streaming) ==
  IF response_streaming
    THEN (IF ~leg THEN <<"GRPC_SERVER_STREAM_MSG_RECEIVED">>
                  ELSE <<"LEGACY_GRPC_SERVER_MSG_SENT_TOTAL_COUNTER">>)
    ELSE <<>>

\* new_behavior, response side: the counting generators around the response
\* iterator, innermost first.
ResponseWrappers(leg, response_streaming) ==
  IF response_streaming
    THEN (IF ~leg THEN <<"GRPC_SERVER_STREAM_MSG_RECEIVED">> ELSE <<>>)
         \o <<IF leg THEN "LEGACY_GRPC_SERVER_MSG_SENT_TOTAL_COUNTER"
                     ELSE "GRPC_SERVER_STREAM_MSG_SENT">>
    ELSE <<>>

\* The handled increment on return gone wrong: made in legacy mode only.
HandledOnReturn_LegacyOnly(leg, response_streaming, gt, svc, mth, ctx) ==
  IF response_streaming \/ ~leg THEN <<>>
  ELSE <<Sample("LEGACY_GRPC_SERVER_HANDLED_TOTAL_COUNTER", gt, svc, mth,
                compute_status_code(ctx).name, 1)>>

\* The handled increment on return gone wrong: made for response streams too.
HandledOnReturn_AnyShape(leg, response_streaming, gt, svc, mth, ctx) ==
  IF leg
    THEN <<Sample("LEGACY_GRPC_SERVER_HANDLED_TOTAL_COUNTER", gt, svc, mth,
                  compute_status_code(ctx).name, 1)>>
    ELSE <<Sample("GRPC_SERVER_HANDLED_COUNTER", gt, svc, mth,
                  compute_status_code(ctx).name, 1)>>

\* new_behavior, after the behaviour returned: the handled increment of a
\* call whose response is not a stream.
HandledOnReturn(leg, response_streaming, gt, svc, mth, ctx) ==
  IF response_streaming THEN <<>>
  ELSE IF leg
    THEN <<Sample("LEGACY_GRPC_SERVER_HANDLED_TOTAL_COUNTER", gt, svc, mth,
                  compute_status_code(ctx).name, 1)>>
    ELSE <<Sample("GRPC_SERVER_HANDLED_COUNTER", gt, svc, mth,
                  compute_status_code(ctx).name, 1)>>

\* The handled increment of an error gone wrong: every exception is caught
\* (except Exception), not only grpc.RpcError.
HandledOnError_AnyError(leg, gt, svc, mth, e) ==
  IF leg
    THEN <<Sample("LEGACY_GRPC_SERVER_HANDLED_TOTAL_COUNTER", gt, svc, mth,
                  compute_error_code(e), 1)>>
    ELSE <<Sample("GRPC_SERVER_HANDLED_COUNTER", gt, svc, mth,
                  compute_error_code(e), 1)>>

\* The handled increment of an error gone wrong: the error's code is not
\* looked at.
HandledOnError_Unknown(leg, gt, svc, mth, e) ==
  IF ~IsRpcError(e) THEN <<>>
  ELSE IF leg
    THEN <<Sample("LEGACY_GRPC_SERVER_HANDLED_TOTAL_COUNTER", gt, svc, mth,
                  StatusCode.UNKNOWN.name, 1)>>
    ELSE <<Sample("GRPC_SERVER_HANDLED_COUNTER", gt, svc, mth,
                  StatusCode.UNKNOWN.name, 1)>>

\* new_behavior, except grpc.RpcError: the handled increment of the error.
HandledOnError(leg, gt, svc, mth, e) ==
  IF ~IsRpcError(e) THEN <<>>
  ELSE IF leg
    THEN <<Sample("LEGACY_GRPC_SERVER_HANDLED_TOTAL_COUNTER", gt, svc, mth,
                  compute_error_code(e), 1)>>
    ELSE <<Sample("GRPC_SERVER_HANDLED_COUNTER", gt, svc, mth,
                  compute_error_code(e), 1)>>

\* The elapsed time gone wrong: not clamped at 0.
Elapsed_NoClamp(start, now) == now - start

\* max(default_timer() - start, 0)
Elapsed(start, now) == IF now - start > 0 THEN now - start ELSE 0

\* The latency metrics gone wrong: the histogram flag is tested before the
\* legacy flag.
LatencyMetric_HistFirst(leg, hist, response_streaming) ==
  IF response_streaming THEN <<>>
  ELSE IF hist THEN <<"GRPC_SERVER_HANDLED_HISTOGRAM">>
  ELSE IF leg THEN <<"LEGACY_GRPC_SERVER_HANDLED_LATENCY_SECONDS">>
  ELSE <<>>

\* The latency metrics gone wrong: the histogram flag is looked at in legacy
\* mode too (if ... if instead of if ... elif).
LatencyMetric_NoElif(leg, hist, response_streaming) ==
  IF response_streaming THEN <<>>
  ELSE (IF leg THEN <<"LEGACY_GRPC_SERVER_HANDLED_LATENCY_SECONDS">> ELSE <<>>)
       \o (IF hist THEN <<"GRPC_SERVER_HANDLED_HISTOGRAM">> ELSE <<>>)

\* new_behavior, finally: the metrics that observe the latency (one or none).
LatencyMetric(leg, hist, response_streaming) ==
  IF response_streaming THEN <<>>
  ELSE IF leg THEN <<"LEGACY_GRPC_SERVER_HANDLED_LATENCY_SECONDS">>
  ELSE IF hist THEN <<"GRPC_SERVER_HANDLED_HISTOGRAM">>
  ELSE <<>>

\* new_behavior, finally: the latency observations, the clock reading now.
LatencySamples(leg, hist, response_streaming, gt, svc, mth, start, now) ==
  LET ms == LatencyMetric(leg, hist, response_streaming)
  IN [i \in 1..Len(ms) |->
        Sample(ms[i], gt, svc, mth, NoCode, Elapsed(start, now))]

\* What the behaviour handed back, and what new_behavior hands the transport.
Outcome(kind, val, err) == [kind |-> kind, val |-> val, err |-> err]
NoOutcome == Outcome("none", NoMsg, NoError)

\* new_behavior up to the invocation of the behaviour: the samples recorded,
\* the generators put around a request iterator, and the argument the
\* behaviour is invoked with.
OnInvoke(leg, nb, gt, request_or_iterator) ==
  [ samples |-> StartedSamples(leg, nb.request_streaming, gt,
                               nb.grpc_service_name, nb.grpc_method_name),
    wrappers |-> RequestWrappers(leg, nb.request_streaming),
    arg |-> request_or_iterator ]

\* new_behavior on return gone wrong: the latency is observed before the
\* handled increment.
OnReturn_LatencyFirst(leg, hist, nb, gt, ctx, start, now, resp) ==
  [ samples |->
      LatencySamples(leg, hist, nb.response_streaming, gt,
                     nb.grpc_service_name, nb.grpc_method_name, start, now)
      \o HandledOnReturn(leg, nb.response_streaming, gt, nb.grpc_service_name,
                         nb.grpc_method_name, ctx),
    wrappers |-> ResponseWrappers(leg, nb.response_streaming),
    out |-> resp ]

\* new_behavior when the behaviour returned resp: the samples recorded, the
\* generators put around a response iterator, and what is returned.
OnReturn(leg, hist, nb, gt, ctx, start, now, resp) ==
  [ samples |->
      HandledOnReturn(leg, nb.response_streaming, gt, nb.grpc_service_name,
                      nb.grpc_method_name, ctx)
      \o LatencySamples(leg, hist, nb.response_streaming, gt,
                        nb.grpc_service_name, nb.grpc_method_name, start, now),
    wrappers |-> ResponseWrappers(leg, nb.response_streaming),
    out |-> resp ]

\* new_behavior on an error gone wrong: a new error of the same class and
\* code is raised in place of the one caught.
OnRaise_NewError(leg, hist, nb, gt, start, now, e) ==
  [ samples |->
      HandledOnError(leg, gt, nb.grpc_service_name, nb.grpc_method_name, e)
      \o LatencySamples(leg, hist, nb.response_streaming, gt,
                        nb.grpc_service_name, nb.grpc_method_name, start, now),
    out |-> Outcome("raise", NoMsg, [e EXCEPT !.id = "new"]) ]

\* new_behavior when the behaviour raised e: the samples recorded and what is
\* raised to the transport.
OnRaise(leg, hist, nb, gt, start, now, e) ==
  [ samples |->
      HandledOnError(leg, gt, nb.grpc_service_name, nb.grpc_method_name, e)
      \o LatencySamples(leg, hist, nb.response_streaming, gt,
                        nb.grpc_service_name, nb.grpc_method_name, start, now),
    out |-> Outcome("raise", NoMsg, e) ]

(* ------------------------------- state -------------------------------- *)

NoClosure == metrics_wrapper(<<>>, FALSE, FALSE, [service |-> <<>>, method |-> <<>>])

\* A call that has just reached the server: its details and what the
\* continuation yields for them.
NewCall(path, handler) ==
  [ pc |-> "new",              \* new, nohandler, ready, body, stream, done
    details |-> path,          \* handler_call_details.method
    continuation |-> handler,  \* continuation(handler_call_details)
    handler |-> <<>>,          \* what intercept_service returned
    nb |-> NoClosure,          \* the new_behavior being executed
    grpc_type |-> "-",
    start |-> 0,               \* default_timer() at entry
    finish |-> 0,              \* default_timer() in the finally clause
    ctx |-> [client |-> "open", code |-> CodeUnset],  \* servicer_context._state
    request |-> NoMsg,         \* the request the transport passed
    hreq |-> NoMsg,            \* the request the behaviour was given
    reqSrc |-> "open",         \* the transport's request iterator
    reqSent |-> <<>>,          \* elements the request iterator produced
    reqSeen |-> <<>>,          \* elements the behaviour pulled
    reqWrap |-> <<>>,          \* counters of the request generators
    respWrap |-> <<>>,         \* counters of the response generators
    fl |-> "none",             \* an element inside the generators: req, resp
    item |-> NoMsg,
    passed |-> 0,              \* generators the element has passed
    produced |-> <<>>,         \* elements the behaviour yielded
    delivered |-> <<>>,        \* elements the transport received
    hout |-> NoOutcome,        \* how the behaviour's invocation ended
    tout |-> NoOutcome,        \* how new_behavior's invocation ended
    hterm |-> NoOutcome,       \* how the behaviour's response iterator ended
    tterm |-> NoOutcome,       \* how the returned response iterator ended
    log |-> <<>> ]             \* the samples this call recorded, in order

InitCalls(active) ==
  /\ legacy \in BOOLEAN
  /\ histogram \in BOOLEAN
  /\ registry = EmptyBag
  /\ \E f \in [active -> Paths \X Handlers] :
       call = [c \in active |-> NewCall(f[c][1], f[c][2])]

\* One call through the interceptor.
Init == InitCalls({1})

\* The calls that reached the server.
Calls == DOMAIN call

(* ------------------------------ actions ------------------------------- *)

\* The call record and the registry after call c recorded samples.
Recorded(c, samples, next) ==
  /\ call' = [call EXCEPT ![c] = [next EXCEPT !.log = call[c].log \o samples]]
  /\ registry' = Record(registry, samples)

\* intercept_service
InterceptService(c) ==
  /\ call[c].pc = "new"
  /\ LET names == split_method_call(call[c].details)
         optional_any == wrap_rpc_behavior(call[c].continuation, names)
     IN call' = [call EXCEPT ![c].handler = optional_any,
                             ![c].pc = IF optional_any = <<>>
                                         THEN "nohandler" ELSE "ready"]
  /\ UNCHANGED <<legacy, histogram, registry>>

\* The invocation gone wrong: start is kept on the interceptor instead of in
\* new_behavior's frame, so the reading of one call replaces that of the
\* calls in progress.
Invoke_SharedStart(c) ==
  /\ call[c].pc = "ready"
  /\ EntryPoint(call[c].handler[1]) # <<>>
  /\ \E t \in Times, m \in Msgs :
       LET h == call[c].handler[1]
           nb == EntryPoint(h)[1]
           request_or_iterator == IF h.request_streaming THEN "iterator" ELSE m
           gt == get_method_type(nb.request_streaming, nb.response_streaming)
           r == OnInvoke(legacy, nb, gt, request_or_iterator)
       IN /\ call' = [d \in Calls |->
               IF d = c
                 THEN [call[c] EXCEPT !.pc = "body", !.nb = nb, !.start = t,
                                      !.grpc_type = gt,
                                      !.request = request_or_iterator,
                                      !.hreq = r.arg,
                                      !.reqWrap = r.wrappers,
                                      !.log = @ \o r.samples]
                 ELSE [call[d] EXCEPT !.start = t]]
          /\ registry' = Record(registry, r.samples)
  /\ UNCHANGED <<legacy, histogram>>

\* The transport invokes the returned handler's entry point; new_behavior
\* runs up to the invocation of the original behaviour.
Invoke(c) ==
  /\ call[c].pc = "ready"
  /\ EntryPoint(call[c].handler[1]) # <<>>
  /\ \E t \in Times, m \in Msgs :
       LET h == call[c].handler[1]
           nb == EntryPoint(h)[1]
           request_or_iterator == IF h.request_streaming THEN "iterator" ELSE m
           gt == get_method_type(nb.request_streaming, nb.response_streaming)
           r == OnInvoke(legacy, nb, gt, request_or_iterator)
       IN Recorded(c, r.samples,
            [call[c] EXCEPT !.pc = "body", !.nb = nb, !.start = t,
                            !.grpc_type = gt,
                            !.request = request_or_iterator,
                            !.hreq = r.arg,
                            !.reqWrap = r.wrappers])
  /\ UNCHANGED <<legacy, histogram>>

\* The behaviour is running: at its invocation, or as a generator behind the
\* response iterator.
Running(c) == call[c].pc \in {"body", "stream"} /\ call[c].fl = "none"

\* The behaviour pulls the request iterator and the transport has an element.
PullItem(c) ==
  /\ Running(c)
  /\ call[c].nb.request_streaming
  /\ call[c].reqSrc = "open"
  /\ Len(call[c].reqSent) < MaxMsgs
  /\ \E m \in Msgs :
       call' = [call EXCEPT ![c].reqSent = Append(@, m), ![c].fl = "req",
                            ![c].item = m, ![c].passed = 0]
  /\ UNCHANGED <<legacy, histogram, registry>>

\* The behaviour pulls the request iterator, which ends or raises: both pass
\* through the generators to the behaviour.
PullStop(c) ==
  /\ Running(c)
  /\ call[c].nb.request_streaming
  /\ call[c].reqSrc = "open"
  /\ \E s \in {"ended", "failed"} : call' = [call EXCEPT ![c].reqSrc = s]
  /\ UNCHANGED <<legacy, histogram, registry>>

\* The generators the element in flight goes through.
Wrappers(c) == IF call[c].fl = "req" THEN call[c].reqWrap ELSE call[c].respWrap

\* The element in flight passes one counting generator.
WrapperYield(c) ==
  /\ call[c].fl # "none"
  /\ call[c].passed < Len(Wrappers(c))
  /\ LET w == wrap_iterator_inc_counter(
                [kind |-> "item", val |-> call[c].item],
                Wrappers(c)[call[c].passed + 1], call[c].grpc_type,
                call[c].nb.grpc_service_name, call[c].nb.grpc_method_name)
     IN Recorded(c, w.samples,
                 [call[c] EXCEPT !.passed = @ + 1, !.item = w.out.val])
  /\ UNCHANGED <<legacy, histogram>>

\* The element in flight leaves the outermost generator: a request element
\* reaches the behaviour, a response element the transport.
Deliver(c) ==
  /\ call[c].fl # "none"
  /\ call[c].passed = Len(Wrappers(c))
  /\ call' = [call EXCEPT
       ![c].fl = "none", ![c].item = NoMsg, ![c].passed = 0,
       ![c].reqSeen = IF call[c].fl = "req" THEN Append(@, call[c].item) ELSE @,
       ![c].delivered = IF call[c].fl = "resp" THEN Append(@, call[c].item) ELSE @]
  /\ UNCHANGED <<legacy, histogram, registry>>

\* The behaviour calls servicer_context.set_code.  The status is read only
\* when new_behavior records a returned response, so it is followed only for
\* the calls whose response is not a stream.
SetCode(c) ==
  /\ call[c].pc = "body" /\ call[c].fl = "none"
  /\ ~call[c].nb.response_streaming
  /\ call[c].ctx.code = CodeUnset
  /\ \E sc \in StatusCodes : call' = [call EXCEPT ![c].ctx.code = sc]
  /\ UNCHANGED <<legacy, histogram, registry>>

\* The client cancels while the behaviour runs.
ClientCancel(c) ==
  /\ call[c].pc = "body" /\ call[c].fl = "none"
  /\ ~call[c].nb.response_streaming
  /\ call[c].ctx.client = "open"
  /\ call' = [call EXCEPT ![c].ctx.client = "cancelled"]
  /\ UNCHANGED <<legacy, histogram, registry>>

\* Whether the finally clause of new_behavior reads the clock.
TimerRead(nb) == LatencyMetric(legacy, histogram, nb.response_streaming) # <<>>

\* The behaviour returns (a response, or a response iterator): new_behavior
\* runs from the invocation to its return.
BehaviorReturn(c) ==
  /\ call[c].pc = "body" /\ call[c].fl = "none"
  /\ \E now \in Times, m \in Msgs :
       LET nb == call[c].nb
           resp == IF nb.response_streaming
                     THEN Outcome("iterator", NoMsg, NoError)
                     ELSE Outcome("value", m, NoError)
           r == OnReturn(legacy, histogram, nb, call[c].grpc_type,
                         call[c].ctx, call[c].start, now, resp)
       IN Recorded(c, r.samples,
            [call[c] EXCEPT !.pc = IF nb.response_streaming
                                     THEN "stream" ELSE "done",
                            !.hout = resp, !.tout = r.out,
                            !.finish = IF TimerRead(nb) THEN now ELSE @,
                            !.respWrap = r.wrappers])
  /\ UNCHANGED <<legacy, histogram>>

\* The behaviour raises at its invocation: new_behavior runs its except and
\* finally clauses and raises.
BehaviorRaise(c) ==
  /\ call[c].pc = "body" /\ call[c].fl = "none"
  /\ \E now \in Times, e \in Errors :
       LET r == OnRaise(legacy, histogram, call[c].nb, call[c].grpc_type,
                        call[c].start, now, e)
       IN Recorded(c, r.samples,
            [call[c] EXCEPT !.pc = "done",
                            !.finish = IF TimerRead(call[c].nb) THEN now ELSE @,
                            !.hout = Outcome("raise", NoMsg, e),
                            !.tout = r.out])
  /\ UNCHANGED <<legacy, histogram>>

\* The behaviour's response iterator yields an element into the generators.
ResponseYield(c) ==
  /\ call[c].pc = "stream" /\ call[c].fl = "none"
  /\ Len(call[c].produced) < MaxMsgs
  /\ \E m \in Msgs :
       call' = [call EXCEPT ![c].produced = Append(@, m), ![c].fl = "resp",
                            ![c].item = m, ![c].passed = 0]
  /\ UNCHANGED <<legacy, histogram, registry>>

RECURSIVE ThroughWrappers(_, _, _, _, _)
\* What comes out of the generators ws (innermost first) when their source
\* gave pulled, with the samples they recorded.
ThroughWrappers(pulled, ws, gt, svc, mth) ==
  IF ws = <<>> THEN [samples |-> <<>>, out |-> pulled]
  ELSE LET w == wrap_iterator_inc_counter(pulled, Head(ws), gt, svc, mth)
           rest == ThroughWrappers(w.out, Tail(ws), gt, svc, mth)
       IN [samples |-> w.samples \o rest.samples, out |-> rest.out]

\* The behaviour's response iterator ends or raises: the generators pass it
\* on to the transport.
ResponseStop(c) ==
  /\ call[c].pc = "stream" /\ call[c].fl = "none"
  /\ \E t \in { [kind |-> "end", val |-> NoMsg, err |-> NoError] }
            \cup { [kind |-> "raise", val |-> NoMsg, err |-> e] : e \in Errors } :
       LET w == ThroughWrappers(t, call[c].respWrap, call[c].grpc_type,
                                call[c].nb.grpc_service_name,
                                call[c].nb.grpc_method_name)
       IN Recorded(c, w.samples,
            [call[c] EXCEPT !.pc = "done", !.hterm = t, !.tterm = w.out])
  /\ UNCHANGED <<legacy, histogram>>

Next ==
  \E c \in Calls :
    \/ InterceptService(c)
    \/ Invoke(c)
    \/ PullItem(c)
    \/ PullStop(c)
    \/ WrapperYield(c)
    \/ Deliver(c)
    \/ SetCode(c)
    \/ ClientCancel(c)
    \/ BehaviorReturn(c)
    \/ BehaviorRaise(c)
    \/ ResponseYield(c)
    \/ ResponseStop(c)

Spec == Init /\ [][Next]_vars

(* -------------------------- concurrent calls -------------------------- *)

\* What the behaviours of concurrent calls raise: an RPC error with a code,
\* or a fault.
ConcErrors ==
  { NoError,
    [class |-> "RpcCall", code |-> StatusCode.NOT_FOUND, id |-> "e"],
    [class |-> "Fault", code |-> CodeUnset, id |-> "e"] }

\* The concurrent calls followed: the first is of the first method, a call
\* has at most one streaming side, a stream has at most MaxConcMsgs elements
\* and every message is "m1", a behaviour sets NOT_FOUND or is cancelled
\* (only when its request is not a stream), and the clock reads MaxTime when
\* a call ends.
ConcBound ==
  /\ call[1].details = <<"/", "S", "/", "a">>
  /\ \A c \in Calls :
       /\ call[c].continuation = <<>>
          \/ ~( call[c].continuation[1].request_streaming
                /\ call[c].continuation[1].response_streaming )
       /\ Len(call[c].reqSent) <= MaxConcMsgs
       /\ Len(call[c].produced) <= MaxConcMsgs
       /\ call[c].request \in {NoMsg, "iterator", "m1"}
       /\ call[c].item \in {NoMsg, "m1"}
       /\ call[c].hout.val \in {NoMsg, "m1"}
       /\ call[c].hout.err \in ConcErrors
       /\ call[c].hterm.err \in ConcErrors
       /\ call[c].ctx.code \in {CodeUnset, StatusCode.NOT_FOUND}
       /\ call[c].ctx.code = CodeUnset \/ call[c].ctx.client = "open"
       /\ call[c].nb.request_streaming =>
            call[c].ctx = [client |-> "open", code |-> CodeUnset]
       /\ (call[c].pc = "done" /\ TimerRead(call[c].nb)) =>
            call[c].finish = MaxTime

\* Two calls through one interceptor.
InitConc == InitCalls({1, 2}) /\ ConcBound

\* A step of one of the calls, the other being anywhere in its own run.
NextConc ==
  \E c \in Calls :
    \/ InterceptService(c) /\ ConcBound'
    \/ Invoke(c) /\ ConcBound'
    \/ PullItem(c) /\ ConcBound'
    \/ PullStop(c) /\ ConcBound'
    \/ WrapperYield(c) /\ ConcBound'
    \/ Deliver(c) /\ ConcBound'
    \/ SetCode(c) /\ ConcBound'
    \/ ClientCancel(c) /\ ConcBound'
    \/ BehaviorReturn(c) /\ ConcBound'
    \/ BehaviorRaise(c) /\ ConcBound'
    \/ ResponseYield(c) /\ ConcBound'
    \/ ResponseStop(c) /\ ConcBound'

SpecConc == InitConc /\ [][NextConc]_vars

(* ------------------------- the log of a call -------------------------- *)

\* The samples call c recorded on the metrics of ms, in order.
Samples(c, ms) == SelectSeq(call[c].log, LAMBDA s : s.metric \in ms)
NumSamples(c, ms) == Len(Samples(c, ms))

Invoked(c) == call[c].pc \in {"body", "stream", "done"}
\* The behaviour returned a response (not a response iterator).
Returned(c) == call[c].pc = "done" /\ call[c].hout.kind = "value"
\* new_behavior caught an error raised by the behaviour.
Raised(c) == call[c].pc = "done" /\ call[c].hout.kind = "raise"
Shape(c) == call[c].grpc_type

(* ------------------------------- claims ------------------------------- *)

\* C1 (as claimed): every sample of a call is on a legacy metric when the
\* interceptor is legacy and on a default metric when it is not.
C1_FamilyExclusive ==
  \A c \in Calls :
    /\ legacy => NumSamples(c, DefaultMetrics) = 0
    /\ ~legacy => NumSamples(c, LegacyMetrics) = 0

\* C2: a UNARY or CLIENT_STREAM call whose behaviour returned, with no status
\* set and no cancellation, has exactly one handled sample, of code OK; no
\* such call ever has more than one handled sample, and none before it ends.
C2_HandledOnceOk ==
  \A c \in Calls :
    (Invoked(c) /\ ~call[c].nb.response_streaming) =>
      /\ NumSamples(c, HandledMetrics) <= 1
      /\ call[c].pc # "done" => NumSamples(c, HandledMetrics) = 0
      /\ ( /\ Returned(c)
           /\ call[c].ctx.code = CodeUnset
           /\ call[c].ctx.client = "open" )
         => /\ NumSamples(c, HandledMetrics) = 1
            /\ Samples(c, HandledMetrics)[1].code = "OK"
            /\ Samples(c, HandledMetrics)[1].value = 1

C2_Witness ==
  \E c \in Calls :
    /\ Returned(c) /\ Shape(c) = "CLIENT_STREAM"
    /\ call[c].ctx = [client |-> "open", code |-> CodeUnset]
    /\ Len(call[c].reqSeen) = MaxMsgs
    /\ NumSamples(c, HandledMetrics) = 1

\* C3: a UNARY or CLIENT_STREAM call whose behaviour raised an RPC error that
\* carries code X has exactly one handled sample, of code X, and new_behavior
\* raised that very error.
C3_HandledOnceError ==
  \A c \in Calls :
    ( /\ Raised(c) /\ ~call[c].nb.response_streaming
      /\ IsCall(call[c].hout.err) )
    => /\ NumSamples(c, HandledMetrics) = 1
       /\ Samples(c, HandledMetrics)[1].code = call[c].hout.err.code.name
       /\ Samples(c, HandledMetrics)[1].value = 1
       /\ call[c].tout.kind = "raise"
       /\ call[c].tout.err = call[c].hout.err

C3_Witness ==
  \E c \in Calls :
    /\ Raised(c) /\ Shape(c) = "UNARY"
    /\ call[c].hout.err.class = "RpcCall"
    /\ call[c].hout.err.code = StatusCode.NOT_FOUND
    /\ call[c].ctx.code = StatusCode.OK
    /\ NumSamples(c, HandledMetrics) = 1

\* Whether call c completed: its behaviour returned a response or raised an
\* RPC error.
Completed(c) ==
  /\ ~call[c].nb.response_streaming
  /\ Returned(c) \/ (Raised(c) /\ IsRpcError(call[c].hout.err))

\* C4 (as claimed): every completed UNARY or CLIENT_STREAM call has exactly
\* one latency sample, whatever the flags.
C4_LatencyOnceAnyFlags ==
  \A c \in Calls : Completed(c) => NumSamples(c, LatencyMetrics) = 1

\* C4 (amended): a completed UNARY or CLIENT_STREAM call has exactly one
\* latency sample when legacy or enable_handling_time_histogram is set, and
\* none when both are off.
C4_LatencyOnceIfEnabled ==
  \A c \in Calls :
    Completed(c) =>
      NumSamples(c, LatencyMetrics) = IF legacy \/ histogram THEN 1 ELSE 0

C4_Witness ==
  \E c \in Calls :
    /\ Completed(c) /\ Raised(c)
    /\ legacy /\ histogram
    /\ NumSamples(c, LatencyMetrics) = 1

\* sent and received samples of a call, of either family
Sent(c) == NumSamples(c, SentMetrics)
Received(c) == NumSamples(c, ReceivedMetrics)

\* C5 (as claimed): whenever N response elements of a response-streaming
\* call have been delivered and none is inside the generators, the call has
\* exactly N sent samples, and exactly N received samples when not legacy.
C5_SentIsDelivered ==
  \A c \in Calls :
    (Invoked(c) /\ call[c].nb.response_streaming /\ call[c].fl = "none") =>
      /\ Sent(c) = Len(call[c].delivered)
      /\ ~legacy => Received(c) = Len(call[c].delivered)

\* C5 (amended): with N response elements delivered and M request elements
\* delivered to the behaviour (M = 0 for SERVER_STREAM), a response-streaming
\* call has N sent samples when legacy, and N + M sent and N + M received
\* samples when not legacy; a response element is counted after the behaviour
\* produced it and before the transport receives it.
C5_SentIsDeliveredPlusRequests ==
  \A c \in Calls :
    (Invoked(c) /\ call[c].nb.response_streaming) =>
      LET N == Len(call[c].delivered)
          M == Len(call[c].reqSeen)
          MS == IF legacy THEN 0 ELSE M
      IN /\ Shape(c) = "SERVER_STREAM" => M = 0
         /\ call[c].fl = "none" =>
              /\ Len(call[c].produced) = N
              /\ Sent(c) = N + MS
              /\ ~legacy => Received(c) = N + M
         /\ call[c].fl = "resp" =>
              /\ Len(call[c].produced) = N + 1
              /\ Sent(c) \in {N + MS, N + MS + 1}
              /\ ~legacy => Received(c) \in {N + M, N + M + 1}
              /\ call[c].passed = Len(call[c].respWrap) =>
                   /\ Sent(c) = N + MS + 1
                   /\ ~legacy => Received(c) = N + M + 1

C5_Witness ==
  \E c \in Calls :
    /\ Shape(c) = "BIDI_STREAM" /\ ~legacy
    /\ call[c].pc = "done" /\ call[c].tterm.kind = "end"
    /\ Len(call[c].delivered) = MaxMsgs
    /\ Len(call[c].reqSeen) = 1
    /\ Sent(c) = MaxMsgs + 1

\* C6 (as claimed): a response-streaming call never has a handled sample.
C6_StreamNeverHandled ==
  \A c \in Calls :
    (Invoked(c) /\ call[c].nb.response_streaming) =>
      NumSamples(c, HandledMetrics) = 0

\* C6 (amended): a response-streaming call has no handled sample when its
\* behaviour returned the response iterator, however the iterator then ends,
\* and when the behaviour raised an error that is not an RPC error; it has
\* exactly one, of the error's code, when the behaviour raised an RPC error
\* at its invocation.
C6_StreamHandledOnlyOnRaise ==
  \A c \in Calls :
    (Invoked(c) /\ call[c].nb.response_streaming) =>
      IF Raised(c) /\ IsRpcError(call[c].hout.err)
        THEN /\ NumSamples(c, HandledMetrics) = 1
             /\ Samples(c, HandledMetrics)[1].code =
                  IF IsCall(call[c].hout.err)
                    THEN call[c].hout.err.code.name ELSE "UNKNOWN"
        ELSE NumSamples(c, HandledMetrics) = 0

C6_Witness ==
  \E c \in Calls :
    /\ Shape(c) = "SERVER_STREAM"
    /\ call[c].pc = "done"
    /\ call[c].tterm.kind = "raise" /\ IsCall(call[c].tterm.err)
    /\ Len(call[c].delivered) = 1
    /\ NumSamples(c, HandledMetrics) = 0

\* C7: a UNARY or SERVER_STREAM call has no started sample before its wrapped
\* behaviour is invoked and exactly one, the first sample of the call, from
\* the moment the original behaviour is invoked; a CLIENT_STREAM or
\* BIDI_STREAM call never has a started sample.
C7_StartedOnce ==
  \A c \in Calls :
    /\ ~Invoked(c) => NumSamples(c, StartedMetrics) = 0
    /\ Invoked(c) =>
         IF call[c].handler[1].request_streaming
           THEN NumSamples(c, StartedMetrics) = 0
           ELSE /\ NumSamples(c, StartedMetrics) = 1
                /\ call[c].log[1].metric \in StartedMetrics

C7_Witness ==
  \E c \in Calls :
    /\ Shape(c) = "SERVER_STREAM" /\ call[c].pc = "stream"
    /\ Len(call[c].delivered) = 1
    /\ NumSamples(c, StartedMetrics) = 1

\* The status the claim C8 expects for a context.
C8_Expected(ctx) ==
  IF ctx.client = "cancelled" THEN "CANCELLED"
  ELSE IF ctx.code = CodeUnset THEN "OK"
  ELSE ctx.code.name

C8_Resolved ==
  \A c \in Calls :
    (Returned(c) /\ ~call[c].nb.response_streaming) =>
      /\ NumSamples(c, HandledMetrics) = 1
      /\ Samples(c, HandledMetrics)[1].code = C8_Expected(call[c].ctx)

C8_ContextKept ==
  \A c \in Calls :
    (call[c].pc = "body" /\ call'[c].pc # "body") => call'[c].ctx = call[c].ctx

\* C8: the handled sample of a UNARY or CLIENT_STREAM call whose behaviour
\* returned has code CANCELLED when the context says the client cancelled
\* (a status having been set or not), else OK when no status was set, else
\* the status set; and the step that resolves it leaves the context as it was.
C8_StatusResolution == [](C8_Resolved) /\ [][C8_ContextKept]_vars

C8_Witness ==
  \E c \in Calls :
    /\ Returned(c) /\ Shape(c) = "UNARY"
    /\ call[c].ctx = [client |-> "cancelled", code |-> StatusCode.NOT_FOUND]
    /\ Samples(c, HandledMetrics)[1].code = "CANCELLED"

\* s without its last element
Front(s) == SubSeq(s, 1, Len(s) - 1)

\* C9: the behaviour is given the request the transport passed and pulls
\* the elements the transport's request iterator produced, in order; the
\* transport is handed the response the behaviour returned or the very error
\* it raised, receives the response elements the behaviour yielded, in order,
\* and sees the response iterator end as the behaviour ended it.
C9_Transparent ==
  \A c \in Calls :
    Invoked(c) =>
      /\ call[c].hreq = call[c].request
      /\ call[c].reqSeen = IF call[c].fl = "req" THEN Front(call[c].reqSent)
                                                 ELSE call[c].reqSent
      /\ call[c].fl = "req" => call[c].item = call[c].reqSent[Len(call[c].reqSent)]
      /\ call[c].delivered = IF call[c].fl = "resp" THEN Front(call[c].produced)
                                                    ELSE call[c].produced
      /\ call[c].fl = "resp" => call[c].item = call[c].produced[Len(call[c].produced)]
      /\ call[c].tout = call[c].hout
      /\ call[c].tterm = call[c].hterm
      /\ call[c].pc = "done" =>
           \/ call[c].hout.kind \in {"value", "raise"}
           \/ call[c].hout.kind = "iterator" /\ call[c].hterm.kind \in {"end", "raise"}

C9_Witness ==
  \E c \in Calls :
    /\ Shape(c) = "BIDI_STREAM" /\ call[c].pc = "done"
    /\ call[c].tterm.kind = "raise" /\ call[c].tterm.err.class = "Fault"
    /\ call[c].delivered = <<"m2", "m1">>
    /\ call[c].reqSeen = <<"m1", "m2">>

\* C10: every latency sample is max(finish - start, 0) for the clock readings
\* start and finish of its call: 0 when finish is smaller than start, never
\* negative.
C10_LatencyClamped ==
  \A c \in Calls :
    \A i \in 1..Len(call[c].log) :
      call[c].log[i].metric \in LatencyMetrics =>
        /\ call[c].log[i].value >= 0
        /\ call[c].finish >= call[c].start =>
             call[c].log[i].value = call[c].finish - call[c].start
        /\ call[c].finish < call[c].start => call[c].log[i].value = 0

C10_Witness ==
  \E c \in Calls :
    /\ call[c].pc = "done" /\ call[c].finish < call[c].start
    /\ NumSamples(c, LatencyMetrics) = 1
    /\ Samples(c, LatencyMetrics)[1].value = 0


\* The entry points of a handler that are set.
EntriesSet(h) ==
  { k \in {"unary_unary", "unary_stream", "stream_unary", "stream_stream"} :
      h[k] # <<>> }

\* The name of the entry point of a shape.
EntryName(rs, ps) ==
  IF rs THEN (IF ps THEN "stream_stream" ELSE "stream_unary")
        ELSE (IF ps THEN "unary_stream" ELSE "unary_unary")

\* C11: for a handler of any of the four shapes, intercept_service returns a
\* handler of the same shape, whose only entry point is that of the shape and
\* wraps the original entry point of the shape with the shape's flags, and
\* whose request deserializer and response serializer are the original ones.
C11_ShapePreserved ==
  \A c \in Calls :
    (call[c].pc # "new" /\ call[c].continuation # <<>>) =>
      /\ call[c].handler # <<>>
      /\ LET o == call[c].continuation[1]
             h == call[c].handler[1]
             k == EntryName(o.request_streaming, o.response_streaming)
         IN /\ h.request_streaming = o.request_streaming
            /\ h.response_streaming = o.response_streaming
            /\ h.request_deserializer = o.request_deserializer
            /\ h.response_serializer = o.response_serializer
            /\ EntriesSet(o) = {k}
            /\ EntriesSet(h) = {k}
            /\ h[k][1].behavior = o[k][1]
            /\ h[k][1].request_streaming = o.request_streaming
            /\ h[k][1].response_streaming = o.response_streaming
            /\ Invoked(c) => call[c].nb = h[k][1]

C11_Witness ==
  \E c \in Calls :
    /\ call[c].pc = "body"
    /\ call[c].continuation[1].request_streaming
    /\ ~call[c].continuation[1].response_streaming
    /\ call[c].handler[1].stream_unary # <<>>
    /\ call[c].nb.behavior = <<"servicer", "CLIENT_STREAM">>


\* C12: a call has a latency sample if and only if its response is not a
\* stream, the wrapped behaviour has exited (by return, RPC error or any
\* other fault) and legacy or enable_handling_time_histogram is set; it then
\* has exactly one, on the legacy latency metric when legacy is set (whatever
\* the histogram flag) and on the default histogram otherwise.
C12_LatencyRules ==
  \A c \in Calls :
    LET n == NumSamples(c, LatencyMetrics)
        exited == call[c].pc = "done" /\ ~call[c].nb.response_streaming
    IN /\ n = IF exited /\ (legacy \/ histogram) THEN 1 ELSE 0
       /\ n = 1 =>
            Samples(c, LatencyMetrics)[1].metric =
              IF legacy THEN "LEGACY_GRPC_SERVER_HANDLED_LATENCY_SECONDS"
                        ELSE "GRPC_SERVER_HANDLED_HISTOGRAM"

C12_Witness ==
  \E c \in Calls :
    /\ Raised(c) /\ call[c].hout.err.class = "Fault"
    /\ Shape(c) = "CLIENT_STREAM"
    /\ legacy /\ histogram
    /\ NumSamples(c, LatencyMetrics) = 1
    /\ Samples(c, LatencyMetrics)[1].metric =
         "LEGACY_GRPC_SERVER_HANDLED_LATENCY_SECONDS"


\* The behaviour of call c raises, at its invocation, a fault that is not an
\* RPC error.
C13_FaultAtInvocation(c) ==
  /\ call[c].pc = "body" /\ call'[c].pc = "done"
  /\ call'[c].hout.kind = "raise" /\ call'[c].hout.err.class = "Fault"

\* The response iterator of call c raises a fault that is not an RPC error.
C13_FaultInStream(c) ==
  /\ call[c].pc = "stream" /\ call'[c].pc = "done"
  /\ call'[c].hterm.kind = "raise" /\ call'[c].hterm.err.class = "Fault"

\* C13 (as claimed): when the behaviour raises a fault that is not an RPC
\* error, the same fault reaches the transport and the call records nothing:
\* its samples are those it had before the fault.
C13_NothingAfterFault ==
  [][ \A c \in Calls :
        /\ C13_FaultAtInvocation(c) =>
             /\ call'[c].tout = call'[c].hout
             /\ call'[c].log = call[c].log
        /\ C13_FaultInStream(c) =>
             /\ call'[c].tterm = call'[c].hterm
             /\ call'[c].log = call[c].log ]_vars

\* C13 (amended): when the behaviour raises a fault that is not an RPC error,
\* the same fault reaches the transport, no handled sample is recorded, and
\* the only sample recorded after the fault is the latency observation of the
\* finally clause, made when the response is not a stream and legacy or
\* enable_handling_time_histogram is set; a fault raised by the response
\* iterator records nothing.
C13_OnlyLatencyAfterFault ==
  [][ \A c \in Calls :
        /\ C13_FaultAtInvocation(c) =>
             LET old == call[c].log
                 new == call'[c].log
                 observed == ~call[c].nb.response_streaming
                             /\ (legacy \/ histogram)
             IN /\ call'[c].tout = call'[c].hout
                /\ Len(new) = Len(old) + IF observed THEN 1 ELSE 0
                /\ SubSeq(new, 1, Len(old)) = old
                /\ observed => new[Len(new)].metric \in LatencyMetrics
                /\ \A i \in 1..Len(new) : new[i].metric \notin HandledMetrics
        /\ C13_FaultInStream(c) =>
             /\ call'[c].tterm = call'[c].hterm
             /\ call'[c].log = call[c].log ]_vars

C13_Witness ==
  \E c \in Calls :
    /\ Raised(c) /\ call[c].hout.err.class = "Fault"
    /\ Shape(c) = "UNARY" /\ ~legacy /\ histogram
    /\ Len(call[c].log) = 2
    /\ call[c].log[1].metric = "GRPC_SERVER_STARTED_COUNTER"
    /\ call[c].log[2].metric = "GRPC_SERVER_HANDLED_HISTOGRAM"


MessageMetrics == ReceivedMetrics \cup SentMetrics

\* C14: in the samples of a call, in the order recorded, a started sample is
\* the first one, nothing but the latency sample follows a handled sample and
\* nothing follows the latency sample; handled and latency samples exist only
\* once the wrapped behaviour has exited; and the message counters advance
\* element by element in delivery order: every element delivered was counted
\* by each of its generators before the next element entered them.
C14_Ordered ==
  \A c \in Calls :
    LET log == call[c].log
    IN /\ \A j \in 2..Len(log) : log[j].metric \notin StartedMetrics
       /\ \A i \in 1..Len(log) : \A j \in (i + 1)..Len(log) :
            /\ log[i].metric \in HandledMetrics =>
                 log[j].metric \in LatencyMetrics
            /\ log[i].metric \notin LatencyMetrics
       /\ NumSamples(c, HandledMetrics \cup LatencyMetrics) > 0 =>
            call[c].pc = "done"
       /\ NumSamples(c, MessageMetrics) =
            Len(call[c].reqWrap) * Len(call[c].reqSeen)
            + Len(call[c].respWrap) * Len(call[c].delivered)
            + call[c].passed

C14_Witness ==
  \E c \in Calls :
    /\ Returned(c) /\ Shape(c) = "CLIENT_STREAM" /\ ~legacy /\ histogram
    /\ Len(call[c].reqSeen) = 1
    /\ Len(call[c].log) = 4
    /\ call[c].log[1].metric = "GRPC_SERVER_STREAM_MSG_RECEIVED"
    /\ call[c].log[2].metric = "GRPC_SERVER_STREAM_MSG_SENT"
    /\ call[c].log[3].metric = "GRPC_SERVER_HANDLED_COUNTER"
    /\ call[c].log[4].metric = "GRPC_SERVER_HANDLED_HISTOGRAM"


\* C15 (as claimed): whenever no element is inside the generators, a
\* CLIENT_STREAM or BIDI_STREAM call has as many received samples as request
\* elements were delivered to its behaviour, and its sent samples beyond
\* those of its response elements are one per request element when not
\* legacy and none when legacy.
C15_ReceivedIsPulled ==
  \A c \in Calls :
    (Invoked(c) /\ call[c].nb.request_streaming /\ call[c].fl = "none") =>
      /\ Received(c) = Len(call[c].reqSeen)
      /\ Sent(c) - Len(call[c].delivered) =
           IF legacy THEN 0 ELSE Len(call[c].reqSeen)

\* C15 (amended): with M request elements delivered to the behaviour and N
\* response elements delivered to the transport (N = 0 for CLIENT_STREAM), a
\* CLIENT_STREAM or BIDI_STREAM call has M received samples when legacy and
\* M + N when not, and N sent samples when legacy and M + N when not; a
\* request element is counted while it is pulled, before the behaviour gets
\* it, and a pull that ends or raises counts nothing.
C15_ReceivedIsPulledPlusResponses ==
  \A c \in Calls :
    (Invoked(c) /\ call[c].nb.request_streaming) =>
      LET M == Len(call[c].reqSeen)
          N == Len(call[c].delivered)
          R == Received(c) - IF legacy THEN 0 ELSE N
          S == Sent(c) - N
      IN /\ Shape(c) = "CLIENT_STREAM" => N = 0 /\ call[c].fl # "resp"
         /\ call[c].fl = "none" =>
              /\ Len(call[c].reqSent) = M
              /\ R = M
              /\ S = IF legacy THEN 0 ELSE M
         /\ call[c].fl = "req" =>
              /\ Len(call[c].reqSent) = M + 1
              /\ R \in {M, M + 1}
              /\ S \in IF legacy THEN {0} ELSE {M, M + 1}
              /\ call[c].passed = 0 => R = M /\ S \in {0, M}
              /\ call[c].passed = Len(call[c].reqWrap) =>
                   /\ R = M + 1
                   /\ S = IF legacy THEN 0 ELSE M + 1

C15_Witness ==
  \E c \in Calls :
    /\ Shape(c) = "BIDI_STREAM" /\ ~legacy
    /\ call[c].reqSrc = "failed"
    /\ Len(call[c].reqSeen) = 1 /\ Len(call[c].delivered) = 1
    /\ call[c].fl = "none"
    /\ Received(c) = 2 /\ Sent(c) = 2


\* C17: a UNARY or CLIENT_STREAM call whose behaviour raised an RPC error
\* that is not a grpc.Call (it has no code()) has exactly one handled sample,
\* of code UNKNOWN, and new_behavior raised that very error; when the error
\* is a grpc.Call, the handled sample's code is UNKNOWN only if that is the
\* code the error itself carries.
C17_UnknownFallback ==
  \A c \in Calls :
    (Raised(c) /\ ~call[c].nb.response_streaming) =>
      LET e == call[c].hout.err
          handled == Samples(c, HandledMetrics)
      IN /\ (IsRpcError(e) /\ ~IsCall(e)) =>
              /\ Len(handled) = 1
              /\ handled[1].code = "UNKNOWN"
              /\ handled[1].value = 1
              /\ call[c].tout.kind = "raise"
              /\ call[c].tout.err = e
         /\ (IsCall(e) /\ e.code # StatusCode.UNKNOWN) =>
              \A i \in 1..Len(handled) : handled[i].code # "UNKNOWN"

C17_Witness ==
  \E c \in Calls :
    /\ Raised(c) /\ Shape(c) = "CLIENT_STREAM"
    /\ call[c].hout.err.class = "RpcError"
    /\ call[c].ctx.code = StatusCode.NOT_FOUND
    /\ NumSamples(c, HandledMetrics) = 1
    /\ Samples(c, HandledMetrics)[1].code = "UNKNOWN"
    /\ call[c].tout.err = call[c].hout.err


\* C18: when the continuation yields no handler, intercept_service returns
\* None, nothing is wrapped and the call never has a sample of either
\* family; a call has no sample before its wrapped behaviour is invoked, and
\* the registry is empty as long as no wrapped behaviour was invoked.
C18_NoHandlerNoMetrics ==
  /\ \A c \in Calls :
       /\ (call[c].pc # "new" /\ call[c].continuation = <<>>) =>
            /\ call[c].pc = "nohandler"
            /\ call[c].handler = <<>>
            /\ call[c].nb = NoClosure
            /\ NumSamples(c, DefaultMetrics \cup LegacyMetrics) = 0
       /\ ~Invoked(c) => call[c].log = <<>>
  /\ (\A c \in Calls : ~Invoked(c)) => registry = EmptyBag

C18_Witness ==
  \E c \in Calls :
    /\ call[c].pc = "nohandler"
    /\ call[c].continuation = <<>>
    /\ call[c].handler = <<>>
    /\ registry = EmptyBag


RECURSIVE LogsOf(_)
\* The samples the calls cs recorded, as a bag.
LogsOf(cs) ==
  IF cs = {} THEN EmptyBag
  ELSE LET c == CHOOSE x \in cs : TRUE
       IN Record(LogsOf(cs \ {c}), call[c].log)

\* Every sample of call c carries the call's own type and names, its handled
\* code comes from its own context or its own error, and its latency from
\* its own two clock readings.
C16_OwnEvents(c) ==
  \A i \in 1..Len(call[c].log) :
    LET s == call[c].log[i]
        o == call[c].continuation[1]
        names == split_method_call(call[c].details)
    IN /\ s.grpc_type = get_method_type(o.request_streaming,
                                         o.response_streaming)
       /\ s.grpc_service = names.service
       /\ s.grpc_method = names.method
       /\ s.metric \in HandledMetrics =>
            s.code = IF call[c].hout.kind = "raise"
                       THEN compute_error_code(call[c].hout.err)
                       ELSE compute_status_code(call[c].ctx).name
       /\ s.metric \in LatencyMetrics =>
            s.value = Elapsed(call[c].start, call[c].finish)

\* A step is a step of one call: the other calls' records are untouched,
\* the call appends to its own log, the registry grows by exactly what was
\* appended, and the call's details, handler, closure, type and start are
\* never replaced once set.
C16_StepLocal ==
  \E c \in Calls :
    /\ \A d \in Calls \ {c} : call'[d] = call[d]
    /\ legacy' = legacy /\ histogram' = histogram
    /\ Len(call'[c].log) >= Len(call[c].log)
    /\ SubSeq(call'[c].log, 1, Len(call[c].log)) = call[c].log
    /\ registry' = Record(registry,
                          SubSeq(call'[c].log, Len(call[c].log) + 1,
                                 Len(call'[c].log)))
    /\ call'[c].details = call[c].details
    /\ call'[c].continuation = call[c].continuation
    /\ call[c].pc # "new" => call'[c].handler = call[c].handler
    /\ Invoked(c) => /\ call'[c].nb = call[c].nb
                     /\ call'[c].grpc_type = call[c].grpc_type
                     /\ call'[c].start = call[c].start

\* C16: with two calls interleaved in any way through one interceptor, every
\* step touches one call only, each call's samples carry its own labels,
\* code and timing span and obey the counts of a call running alone, and
\* the registry is the sum of what the calls recorded.
C16_NoInterference ==
  /\ [](/\ \A c \in Calls : C16_OwnEvents(c)
        /\ registry = LogsOf(Calls)
        /\ C7_StartedOnce
        /\ C2_HandledOnceOk
        /\ C3_HandledOnceError
        /\ C12_LatencyRules
        /\ C5_SentIsDeliveredPlusRequests
        /\ C15_ReceivedIsPulledPlusResponses)
  /\ [][C16_StepLocal]_vars

C16_Witness ==
  /\ Calls = {1, 2}
  /\ call[1].details = call[2].details
  /\ Shape(1) = "UNARY" /\ Shape(2) = "UNARY"
  /\ call[1].pc = "done" /\ call[2].pc = "body"
  /\ call[1].start = 0 /\ call[2].start = 1
  /\ NumSamples(1, LatencyMetrics) = 1
  /\ Samples(1, LatencyMetrics)[1].value = 1
  /\ CopiesIn(call[1].log[1], registry) = 2

====
